---- MODULE Spec2Model ----
(***************************************************************************)
(* Model of the tick-driven backtest engine (src/backtest.py):             *)
(* BacktestEngine.on_tick and BacktestEngine.finalize with the ledger      *)
(* helpers _position_size, _open_position, _close_position and             *)
(* portfolio_value.                                                        *)
(*                                                                         *)
(* Prices and cash are integers (whole currency units); the fraction       *)
(* notional_frac_per_trade is a pair <<numerator, denominator>>.  Python   *)
(* dicts are sequences of <<key, value>> pairs in insertion order.  The    *)
(* timestamp of the k-th tick of the stream is k.                          *)
(***************************************************************************)
EXTENDS Integers, Sequences, FiniteSets, TLC

\* ---------------------------------------------------------------- bounds

\* number of ticks the tick source delivers before it is exhausted
MaxTicks == 3

\* number of orders the order manager accepts
MaxOrders == 2

\* longest signal list handed to _direction_from_signals
MaxSignals == 6

\* number of websocket messages the live streams deliver
MaxBars == 4

\* ------------------------------------------------------- program constants

InitialCapital == 100000

\* OrderManager(position_limit=100, initial_cash=10000.0)
PositionLimit == 100

InitialCash == 10000

\* strategies_by_symbol: number of producers registered per symbol;
\* symbol "U" is streamed but has no producers registered
Symbols == {"A", "B", "U"}

StrategiesBySymbol == <<<<"A", 3>>, <<"B", 2>>>>

\* close prices the tick source delivers
Prices == {100, 3000}

\* values of notional_frac_per_trade the engine is constructed with
Fracs == {<<1, 50>>, <<1, 1>>}

\* ------------------------------------------------------------ python dict

Has(d, k) == \E i \in 1..Len(d) : d[i][1] = k

Get(d, k, default) ==
    IF Has(d, k) THEN d[CHOOSE i \in 1..Len(d) : d[i][1] = k][2] ELSE default

Put(d, k, v) ==
    IF Has(d, k)
    THEN [i \in 1..Len(d) |-> IF d[i][1] = k THEN <<k, v>> ELSE d[i]]
    ELSE Append(d, <<k, v>>)

Keys(d) == {d[i][1] : i \in 1..Len(d)}

\* ------------------------------------------------------------- arithmetic

\* Python's // on numbers, for a nonzero divisor
FloorDiv(a, b) == IF b > 0 THEN a \div b ELSE (0 - a) \div (0 - b)

Min(a, b) == IF a <= b THEN a ELSE b

Abs(a) == IF a < 0 THEN 0 - a ELSE a

RECURSIVE SumPnl(_)
SumPnl(ts) == IF ts = <<>> THEN 0 ELSE Head(ts).pnl + SumPnl(Tail(ts))

VARIABLES
    notional_frac_per_trade,  \* <<num, den>>
    cash,
    positions,                \* dict symbol -> signed quantity
    entry_price,              \* dict symbol -> price
    last_price,               \* dict symbol -> price
    last_timestamp,           \* dict symbol -> timestamp
    trades,                   \* list of Trade
    clock,                    \* number of ticks streamed so far
    pc,                       \* "streaming", "finalized" or "raised"
    tick,                     \* the tick of the latest on_tick call
    num_buy,                  \* vote tally of the latest on_tick call
    num_sell,
    _next_order_id,           \* OrderManager: id of the next order
    _orders,                  \* OrderManager: dict order id -> Order
    _cash,                    \* OrderManager: cash
    _positions,               \* OrderManager: units held
    call,                     \* the latest call of a function under test
    result,                   \* what that call returned or raised
    twin,                     \* a second BacktestEngine instance
    live,                     \* the live program: streams and their threads
    strategy,                 \* one signal producer (RSI, BB or Zscore)
    alpaca                    \* the broker account the live engine trades on

engine_vars == <<notional_frac_per_trade, cash, positions, entry_price,
                 last_price, last_timestamp, trades, clock, pc, tick,
                 num_buy, num_sell>>

om_vars == <<_next_order_id, _orders, _cash, _positions>>

call_vars == <<call, result>>

aux_vars == <<twin, live, strategy, alpaca>>

vars == <<engine_vars, om_vars, call_vars, aux_vars>>

\* ------------------------------------------------------------------ Trade

Trade(symbol, timestamp, side, qty, price, pnl) ==
    [symbol |-> symbol, timestamp |-> timestamp, side |-> side,
     qty |-> qty, price |-> price, pnl |-> pnl]

\* ---------------------------------------------------------- the ledger

\* The mutable fields of the engine as one record.
Engine ==
    [cash |-> cash, positions |-> positions, entry_price |-> entry_price,
     last_price |-> last_price, last_timestamp |-> last_timestamp,
     trades |-> trades]

RECURSIVE MarkToMarket(_, _)
MarkToMarket(e, items) ==
    IF items = <<>> THEN 0
    ELSE LET symbol == Head(items)[1]
             qty    == Head(items)[2]
             price  == Get(e.last_price, symbol, Get(e.entry_price, symbol, 0))
         IN (IF qty = 0 THEN 0 ELSE qty * price)
            + MarkToMarket(e, Tail(items))

\* variant: open positions are valued at their entry price
portfolio_value_AtEntry(e) ==
    e.cash + MarkToMarket([e EXCEPT !.last_price = e.entry_price],
                          e.positions)

portfolio_value(e) == e.cash + MarkToMarket(e, e.positions)

\* _position_size raises ZeroDivisionError at notional_target // price
PositionSizeRaises(e, frac, price) ==
    portfolio_value(e) * frac[1] > 0 /\ price = 0

\* variant: a BUY is not capped by the available cash
_position_size_NoCashCap(e, frac, price, side) ==
    IF portfolio_value(e) * frac[1] <= 0 THEN 0
    ELSE LET qty == FloorDiv(portfolio_value(e) * frac[1], frac[2] * price)
         IN IF qty <= 0 THEN 0 ELSE qty

_position_size(e, frac, price, side) ==
    IF portfolio_value(e) * frac[1] <= 0 THEN 0
    ELSE LET qty == FloorDiv(portfolio_value(e) * frac[1], frac[2] * price)
         IN IF qty <= 0 THEN 0
            ELSE IF side = "BUY"
                 THEN LET max_affordable == FloorDiv(e.cash, price)
                      IN IF Min(qty, max_affordable) <= 0 THEN 0
                         ELSE Min(qty, max_affordable)
                 ELSE qty

\* variant: a SELL that opens a short debits the cash like a BUY
_open_position_SellDebitsCash(e, frac, symbol, side, price, ts) ==
    LET qty == _position_size(e, frac, price, side)
    IN IF qty = 0 THEN e
       ELSE [e EXCEPT
               !.cash = @ - qty * price,
               !.positions =
                   IF side = "BUY"
                   THEN Put(@, symbol, Get(@, symbol, 0) + qty)
                   ELSE Put(@, symbol, Get(@, symbol, 0) - qty),
               !.entry_price = Put(@, symbol, price),
               !.trades = Append(@, Trade(symbol, ts, side, qty, price, 0))]

\* variant: an open sized 0 is logged like any other
_open_position_LogsZeroQty(e, frac, symbol, side, price, ts) ==
    LET qty == _position_size(e, frac, price, side)
    IN [e EXCEPT
          !.cash = IF side = "BUY" THEN @ - qty * price
                                   ELSE @ + qty * price,
          !.positions =
              IF side = "BUY"
              THEN Put(@, symbol, Get(@, symbol, 0) + qty)
              ELSE Put(@, symbol, Get(@, symbol, 0) - qty),
          !.entry_price = Put(@, symbol, price),
          !.trades = Append(@, Trade(symbol, ts, side, qty, price, 0))]

_open_position(e, frac, symbol, side, price, ts) ==
    LET qty == _position_size(e, frac, price, side)
    IN IF qty = 0 THEN e
       ELSE [e EXCEPT
               !.cash = IF side = "BUY" THEN @ - qty * price
                                        ELSE @ + qty * price,
               !.positions =
                   IF side = "BUY"
                   THEN Put(@, symbol, Get(@, symbol, 0) + qty)
                   ELSE Put(@, symbol, Get(@, symbol, 0) - qty),
               !.entry_price = Put(@, symbol, price),
               !.trades = Append(@, Trade(symbol, ts, side, qty, price, 0))]

\* variant: the close books the trade but leaves the position in place
_close_position_KeepsPosition(e, symbol, price, ts) ==
    LET qty   == Get(e.positions, symbol, 0)
        entry == Get(e.entry_price, symbol, price)
    IN IF qty = 0 THEN e
       ELSE IF qty > 0
            THEN [e EXCEPT
                    !.cash = @ + qty * price,
                    !.trades = Append(@, Trade(symbol, ts, "SELL", Abs(qty),
                                               price, (price - entry) * qty))]
            ELSE [e EXCEPT
                    !.cash = @ - (0 - qty) * price,
                    !.trades = Append(@, Trade(symbol, ts, "BUY", Abs(qty),
                                               price,
                                               (entry - price) * (0 - qty)))]

\* variant: the PnL of a closed short is computed like that of a long
_close_position_ShortPnlAsLong(e, symbol, price, ts) ==
    LET qty   == Get(e.positions, symbol, 0)
        entry == Get(e.entry_price, symbol, price)
    IN IF qty = 0 THEN e
       ELSE IF qty > 0
            THEN [e EXCEPT
                    !.cash = @ + qty * price,
                    !.positions = Put(@, symbol, 0),
                    !.trades = Append(@, Trade(symbol, ts, "SELL", Abs(qty),
                                               price, (price - entry) * qty))]
            ELSE [e EXCEPT
                    !.cash = @ - (0 - qty) * price,
                    !.positions = Put(@, symbol, 0),
                    !.trades = Append(@, Trade(symbol, ts, "BUY", Abs(qty),
                                               price,
                                               (price - entry) * (0 - qty)))]

\* variant: the close writes its pnl into the opening trade as well
_close_position_RewritesOpen(e, symbol, price, ts) ==
    LET qty   == Get(e.positions, symbol, 0)
        entry == Get(e.entry_price, symbol, price)
        pnl   == IF qty > 0 THEN (price - entry) * qty
                            ELSE (entry - price) * (0 - qty)
    IN IF qty = 0 THEN e
       ELSE [e EXCEPT
               !.cash = @ + qty * price,
               !.positions = Put(@, symbol, 0),
               !.trades =
                   Append([i \in 1..Len(@) |->
                              IF @[i].symbol = symbol /\ i = Len(@)
                              THEN [@[i] EXCEPT !.pnl = pnl] ELSE @[i]],
                          Trade(symbol, ts,
                                IF qty > 0 THEN "SELL" ELSE "BUY",
                                Abs(qty), price, pnl))]

_close_position(e, symbol, price, ts) ==
    LET qty   == Get(e.positions, symbol, 0)
        entry == Get(e.entry_price, symbol, price)
    IN IF qty = 0 THEN e
       ELSE IF qty > 0
            THEN [e EXCEPT
                    !.cash = @ + qty * price,
                    !.positions = Put(@, symbol, 0),
                    !.trades = Append(@, Trade(symbol, ts, "SELL", Abs(qty),
                                               price, (price - entry) * qty))]
            ELSE [e EXCEPT
                    !.cash = @ - (0 - qty) * price,
                    !.positions = Put(@, symbol, 0),
                    !.trades = Append(@, Trade(symbol, ts, "BUY", Abs(qty),
                                               price,
                                               (entry - price) * (0 - qty)))]

\* ---------------------------------------------------------------- votes

\* a signal is the tuple (action, symbol, price, ts)
Signal(action, t) == <<action, t.symbol, t.close_price, t.timestamp>>

\* the action lists a producer can return for one tick: no signal or one
\* signal, and for the first producer of a symbol also two signals
ActionLists == {<<>>, <<1>>, <<-1>>}

TwoActionLists == {<<1, -1>>, <<-1, 1>>}

\* variant: the first signal of the tick wins
_direction_from_signals_First(signals) ==
    IF signals = <<>> THEN 0 ELSE signals[1][1]

_direction_from_signals(signals) ==
    IF signals = <<>> THEN 0 ELSE signals[Len(signals)][1]

\* variant: a symbol without a registration gets two default producers
NumStrategies_DefaultList(symbol) == Get(StrategiesBySymbol, symbol, 2)

NumStrategies(symbol) == Get(StrategiesBySymbol, symbol, 0)

\* what the producers of a symbol return for one tick: one list each
ProducerOutputs(symbol) ==
    IF NumStrategies(symbol) = 0 THEN {<<>>}
    ELSE {<<first>> \o rest :
              first \in ActionLists \cup TwoActionLists,
              rest \in [1..(NumStrategies(symbol) - 1) -> ActionLists]}

Directions(outputs, t) ==
    [i \in DOMAIN outputs |->
        _direction_from_signals(
            [j \in 1..Len(outputs[i]) |-> Signal(outputs[i][j], t)])]

Count(directions, d) == Cardinality({i \in DOMAIN directions : directions[i] = d})

\* ----------------------------------------------------------------- state

NoTick == [symbol |-> "-", close_price |-> 0, timestamp |-> 0]

NoCall == [op |-> "none"]

\* the live program before any stream is started
NoLive == [started |-> FALSE]

\* no producer has been constructed
NoStrategy == [kind |-> "none"]

\* the live engine has not been given its broker account
NoAlpaca == [connected |-> FALSE]

Init ==
    /\ notional_frac_per_trade \in Fracs
    /\ cash = InitialCapital
    /\ positions = <<>>
    /\ entry_price = <<>>
    /\ last_price = <<>>
    /\ last_timestamp = <<>>
    /\ trades = <<>>
    /\ clock = 0
    /\ pc = "streaming"
    /\ tick = NoTick
    /\ num_buy = 0
    /\ num_sell = 0
    /\ _next_order_id = 1
    /\ _orders = <<>>
    /\ _cash = InitialCash
    /\ _positions = 0
    /\ call = NoCall
    /\ result = 0
    /\ twin = Engine
    /\ live = NoLive
    /\ strategy = NoStrategy
    /\ alpaca = NoAlpaca

SetEngine(e) ==
    /\ cash' = e.cash
    /\ positions' = e.positions
    /\ entry_price' = e.entry_price
    /\ last_price' = e.last_price
    /\ last_timestamp' = e.last_timestamp
    /\ trades' = e.trades

\* variant: an entry is taken on two agreeing votes although one opposes
Decide_MajorityEntry(e, frac, symbol, price, ts, nb, ns) ==
    LET pos == Get(e.positions, symbol, 0)
    IN IF nb = 0 /\ ns = 0 THEN e
       ELSE IF pos = 0 /\ nb >= 2 /\ nb > ns
            THEN _open_position(e, frac, symbol, "BUY", price, ts)
       ELSE IF pos > 0 /\ ns >= 2
            THEN _close_position(e, symbol, price, ts)
       ELSE IF pos = 0 /\ ns >= 2 /\ ns > nb
            THEN _open_position(e, frac, symbol, "SELL", price, ts)
       ELSE IF pos < 0 /\ nb >= 2
            THEN _close_position(e, symbol, price, ts)
       ELSE e

\* variant: an entry needs three agreeing votes
Decide_ThreeVotesEntry(e, frac, symbol, price, ts, nb, ns) ==
    LET pos == Get(e.positions, symbol, 0)
    IN IF nb = 0 /\ ns = 0 THEN e
       ELSE IF pos = 0 /\ nb >= 3 /\ ns = 0
            THEN _open_position(e, frac, symbol, "BUY", price, ts)
       ELSE IF pos > 0 /\ ns >= 2
            THEN _close_position(e, symbol, price, ts)
       ELSE IF pos = 0 /\ ns >= 3 /\ nb = 0
            THEN _open_position(e, frac, symbol, "SELL", price, ts)
       ELSE IF pos < 0 /\ nb >= 2
            THEN _close_position(e, symbol, price, ts)
       ELSE e

\* variant: an exit is blocked by an opposing vote, like an entry
Decide_ExitNeedsNoOpposition(e, frac, symbol, price, ts, nb, ns) ==
    LET pos == Get(e.positions, symbol, 0)
    IN IF nb = 0 /\ ns = 0 THEN e
       ELSE IF pos = 0 /\ nb >= 2 /\ ns = 0
            THEN _open_position(e, frac, symbol, "BUY", price, ts)
       ELSE IF pos > 0 /\ ns >= 2 /\ nb = 0
            THEN _close_position(e, symbol, price, ts)
       ELSE IF pos = 0 /\ ns >= 2 /\ nb = 0
            THEN _open_position(e, frac, symbol, "SELL", price, ts)
       ELSE IF pos < 0 /\ nb >= 2 /\ ns = 0
            THEN _close_position(e, symbol, price, ts)
       ELSE e

\* variant: buy consensus extends a long that is already held
Decide_ExtendLong(e, frac, symbol, price, ts, nb, ns) ==
    LET pos == Get(e.positions, symbol, 0)
    IN IF nb = 0 /\ ns = 0 THEN e
       ELSE IF pos >= 0 /\ nb >= 2 /\ ns = 0
            THEN _open_position(e, frac, symbol, "BUY", price, ts)
       ELSE IF pos > 0 /\ ns >= 2
            THEN _close_position(e, symbol, price, ts)
       ELSE IF pos = 0 /\ ns >= 2 /\ nb = 0
            THEN _open_position(e, frac, symbol, "SELL", price, ts)
       ELSE IF pos < 0 /\ nb >= 2
            THEN _close_position(e, symbol, price, ts)
       ELSE e

\* variant: the checks fall through, so a close is followed by the opposite
\* entry in the same call
Decide_FallThrough(e, frac, symbol, price, ts, nb, ns) ==
    LET pos == Get(e.positions, symbol, 0)
    IN IF nb = 0 /\ ns = 0 THEN e
       ELSE IF pos = 0 /\ nb >= 2 /\ ns = 0
            THEN _open_position(e, frac, symbol, "BUY", price, ts)
       ELSE IF pos > 0 /\ ns >= 2
            THEN IF nb = 0
                 THEN _open_position(_close_position(e, symbol, price, ts),
                                     frac, symbol, "SELL", price, ts)
                 ELSE _close_position(e, symbol, price, ts)
       ELSE IF pos = 0 /\ ns >= 2 /\ nb = 0
            THEN _open_position(e, frac, symbol, "SELL", price, ts)
       ELSE IF pos < 0 /\ nb >= 2
            THEN _close_position(e, symbol, price, ts)
       ELSE e

\* variant: a tick without votes closes the open position
Decide_ClosesOnSilence(e, frac, symbol, price, ts, nb, ns) ==
    LET pos == Get(e.positions, symbol, 0)
    IN IF nb = 0 /\ ns = 0 THEN _close_position(e, symbol, price, ts)
       ELSE IF pos = 0 /\ nb >= 2 /\ ns = 0
            THEN _open_position(e, frac, symbol, "BUY", price, ts)
       ELSE IF pos > 0 /\ ns >= 2
            THEN _close_position(e, symbol, price, ts)
       ELSE IF pos = 0 /\ ns >= 2 /\ nb = 0
            THEN _open_position(e, frac, symbol, "SELL", price, ts)
       ELSE IF pos < 0 /\ nb >= 2
            THEN _close_position(e, symbol, price, ts)
       ELSE e

\* The decision of on_tick once the votes are tallied: the engine after the
\* call, e being the engine after the mark.
Decide(e, frac, symbol, price, ts, nb, ns) ==
    LET pos == Get(e.positions, symbol, 0)
    IN IF nb = 0 /\ ns = 0 THEN e
       ELSE IF pos = 0 /\ nb >= 2 /\ ns = 0
            THEN _open_position(e, frac, symbol, "BUY", price, ts)
       ELSE IF pos > 0 /\ ns >= 2
            THEN _close_position(e, symbol, price, ts)
       ELSE IF pos = 0 /\ ns >= 2 /\ nb = 0
            THEN _open_position(e, frac, symbol, "SELL", price, ts)
       ELSE IF pos < 0 /\ nb >= 2
            THEN _close_position(e, symbol, price, ts)
       ELSE e

\* on_tick reaches _position_size with a price that makes it raise
DecideRaises(e, frac, symbol, price, nb, ns) ==
    LET pos == Get(e.positions, symbol, 0)
    IN /\ pos = 0
       /\ (nb >= 2 /\ ns = 0) \/ (ns >= 2 /\ nb = 0)
       /\ PositionSizeRaises(e, frac, price)

\* variant: the tick is marked only after the producer lookup succeeded
on_tick_MarksRegisteredOnly(symbol, price, outputs) ==
    LET t  == [symbol |-> symbol, close_price |-> price,
               timestamp |-> clock + 1]
        e1 == [Engine EXCEPT
                 !.last_price = Put(@, symbol, price),
                 !.last_timestamp = Put(@, symbol, t.timestamp)]
        directions == Directions(outputs, t)
    IN /\ pc = "streaming"
       /\ clock < MaxTicks
       /\ clock' = clock + 1
       /\ tick' = t
       /\ UNCHANGED <<notional_frac_per_trade, om_vars, call_vars>>
       /\ \E nb \in {Count(directions, 1)}, ns \in {Count(directions, -1)} :
             /\ num_buy' = nb
             /\ num_sell' = ns
             /\ IF NumStrategies(symbol) = 0
                THEN SetEngine(Engine) /\ pc' = pc
                ELSE /\ \E e2 \in {Decide(e1, notional_frac_per_trade,
                                           symbol, price, t.timestamp,
                                           nb, ns)} :
                            SetEngine(e2)
                     /\ pc' = pc

on_tick(symbol, price, outputs) ==
    LET t  == [symbol |-> symbol, close_price |-> price,
               timestamp |-> clock + 1]
        e1 == [Engine EXCEPT
                 !.last_price = Put(@, symbol, price),
                 !.last_timestamp = Put(@, symbol, t.timestamp)]
        directions == Directions(outputs, t)
    IN /\ pc = "streaming"
       /\ clock < MaxTicks
       /\ clock' = clock + 1
       /\ tick' = t
       /\ UNCHANGED <<notional_frac_per_trade, om_vars, call_vars>>
       /\ \E nb \in {Count(directions, 1)}, ns \in {Count(directions, -1)} :
             /\ num_buy' = nb
             /\ num_sell' = ns
             /\ IF NumStrategies(symbol) = 0
                THEN SetEngine(e1) /\ pc' = pc
                ELSE IF DecideRaises(e1, notional_frac_per_trade, symbol,
                                     price, nb, ns)
                     THEN SetEngine(e1) /\ pc' = "raised"
                     ELSE /\ \E e2 \in {Decide(e1, notional_frac_per_trade,
                                                symbol, price, t.timestamp,
                                                nb, ns)} :
                                 SetEngine(e2)
                          /\ pc' = pc

OnTick == \E symbol \in Symbols, price \in Prices :
              \E outputs \in ProducerOutputs(symbol) :
                  on_tick(symbol, price, outputs) /\ UNCHANGED aux_vars

\* variant: finalize closes the long positions only
RECURSIVE FinalizeItems_LongsOnly(_, _)
FinalizeItems_LongsOnly(e, items) ==
    IF items = <<>> THEN e
    ELSE LET symbol == Head(items)[1]
             qty    == Head(items)[2]
         IN IF qty <= 0 THEN FinalizeItems_LongsOnly(e, Tail(items))
            ELSE IF ~Has(e.last_price, symbol) \/ ~Has(e.last_timestamp, symbol)
                 THEN FinalizeItems_LongsOnly(e, Tail(items))
            ELSE FinalizeItems_LongsOnly(
                     _close_position(e, symbol, Get(e.last_price, symbol, 0),
                                     Get(e.last_timestamp, symbol, 0)),
                     Tail(items))

RECURSIVE FinalizeItems(_, _)
FinalizeItems(e, items) ==
    IF items = <<>> THEN e
    ELSE LET symbol == Head(items)[1]
             qty    == Head(items)[2]
         IN IF qty = 0 THEN FinalizeItems(e, Tail(items))
            ELSE IF ~Has(e.last_price, symbol) \/ ~Has(e.last_timestamp, symbol)
                 THEN FinalizeItems(e, Tail(items))
            ELSE FinalizeItems(
                     _close_position(e, symbol, Get(e.last_price, symbol, 0),
                                     Get(e.last_timestamp, symbol, 0)),
                     Tail(items))

finalize ==
    /\ pc \in {"streaming", "finalized"}
    /\ \E e2 \in {FinalizeItems(Engine, positions)} : SetEngine(e2)
    /\ pc' = "finalized"
    /\ UNCHANGED <<notional_frac_per_trade, clock, tick, num_buy, num_sell>>
    /\ UNCHANGED <<om_vars, call_vars>>

Finalize == finalize /\ UNCHANGED aux_vars

Next == OnTick \/ Finalize

Spec == Init /\ [][Next]_vars

\* ------------------------------------------- a producer raises in on_tick

\* on_tick when generate_signals of producer k raises: the tick is marked,
\* no vote is tallied, and the exception leaves on_tick and the stream loop
on_tick_raising(symbol, price, k) ==
    LET t  == [symbol |-> symbol, close_price |-> price,
               timestamp |-> clock + 1]
        e1 == [Engine EXCEPT
                 !.last_price = Put(@, symbol, price),
                 !.last_timestamp = Put(@, symbol, t.timestamp)]
    IN /\ pc = "streaming"
       /\ clock < MaxTicks
       /\ k \in 1..NumStrategies(symbol)
       /\ clock' = clock + 1
       /\ tick' = t
       /\ SetEngine(e1)
       /\ pc' = "raised"
       /\ UNCHANGED <<notional_frac_per_trade, num_buy, num_sell>>
       /\ UNCHANGED <<om_vars, call_vars>>

OnTickRaising == \E symbol \in Symbols, price \in Prices :
                     \E k \in 1..NumStrategies(symbol) :
                         on_tick_raising(symbol, price, k)
                         /\ UNCHANGED aux_vars

NextFault == OnTick \/ OnTickRaising \/ Finalize

SpecFault == Init /\ [][NextFault]_vars

\* ------------------------------------------------ ticks with any price

\* close prices of a tick source that is not validated
AnyPrices == {-100, 0, 100}

OnTickAnyPrice == \E symbol \in Symbols, price \in AnyPrices :
                      \E outputs \in ProducerOutputs(symbol) :
                          on_tick(symbol, price, outputs)
                          /\ UNCHANGED aux_vars

NextAnyPrice == OnTickAnyPrice \/ Finalize

SpecAnyPrice == Init /\ [][NextAnyPrice]_vars

\* ------------------------------------- one symbol, 2% notional, 100 / 110

ScenarioPrices == {100, 110}

InitScenario == Init /\ notional_frac_per_trade = <<1, 50>>

OnTickScenario == \E price \in ScenarioPrices :
                      \E outputs \in ProducerOutputs("A") :
                          on_tick("A", price, outputs)
                          /\ UNCHANGED aux_vars

NextScenario == OnTickScenario \/ Finalize

SpecScenario == InitScenario /\ [][NextScenario]_vars

\* --------------------------------------------- _position_size on its own

\* ledger states _position_size is asked in: cash on hand and a holding of
\* symbol "B" marked at 100
SizeCash == {-200, 0, 500, 100000}

SizeHoldings == {0, 45, -45}

SizePrices == {7, 100, 3000}

InitSize ==
    /\ notional_frac_per_trade \in Fracs
    /\ cash \in SizeCash
    /\ \E q \in SizeHoldings :
           /\ positions = IF q = 0 THEN <<>> ELSE <<<<"B", q>>>>
           /\ entry_price = IF q = 0 THEN <<>> ELSE <<<<"B", 100>>>>
    /\ last_price = <<<<"B", 100>>>>
    /\ last_timestamp = <<<<"B", 1>>>>
    /\ trades = <<>>
    /\ clock = 1
    /\ pc = "streaming"
    /\ tick = [symbol |-> "B", close_price |-> 100, timestamp |-> 1]
    /\ num_buy = 0
    /\ num_sell = 0
    /\ _next_order_id = 1
    /\ _orders = <<>>
    /\ _cash = InitialCash
    /\ _positions = 0
    /\ call = NoCall
    /\ result = 0
    /\ twin = Engine
    /\ live = NoLive
    /\ strategy = NoStrategy
    /\ alpaca = NoAlpaca

position_size_call(price, side) ==
    /\ call' = [op |-> "_position_size", price |-> price, side |-> side]
    /\ result' = _position_size(Engine, notional_frac_per_trade, price, side)
    /\ UNCHANGED <<engine_vars, om_vars>>

PositionSizeCall == \E price \in SizePrices, side \in {"BUY", "SELL"} :
                        position_size_call(price, side)
                        /\ UNCHANGED aux_vars

SpecSize == InitSize /\ [][PositionSizeCall]_vars

\* ------------------------------------- _direction_from_signals on its own

SignalTick == [symbol |-> "A", close_price |-> 100, timestamp |-> 1]

SignalLists ==
    UNION {[1..n -> {Signal(a, SignalTick) : a \in {1, -1}}] :
               n \in 0..MaxSignals}

direction_call(signals) ==
    /\ call' = [op |-> "_direction_from_signals", signals |-> signals]
    /\ result' = _direction_from_signals(signals)
    /\ UNCHANGED <<engine_vars, om_vars>>

DirectionCall == \E signals \in SignalLists :
                     direction_call(signals) /\ UNCHANGED aux_vars

SpecDirection == Init /\ [][DirectionCall]_vars

\* ------------------------------------------------------ the order manager

\* inputs of create_order
OrderSides == {1, -1, 0}

OrderQuantities == {0, 90, 150}

OrderPrices == {0, 60}

OrderSymbols == {"", "NVDA"}

OrderTimestamps == {1}

\* outcomes of MatchingEngine.process_order, by where the random cutoff falls
Fills == {"EXECUTED", "PARTIALLY_FILLED", "FAILED"}

Order(order_id, timestamp, symbol, price, side, status, quantity) ==
    [order_id |-> order_id, timestamp |-> timestamp, symbol |-> symbol,
     price |-> price, side |-> side, status |-> status,
     quantity |-> quantity, validated |-> FALSE]

\* variant: the order id is consumed before the inputs are checked
create_order_IdBeforeChecks(timestamp, symbol, price, side, quantity) ==
    /\ call' = [op |-> "create_order", timestamp |-> timestamp,
                symbol |-> symbol, price |-> price, side |-> side,
                quantity |-> quantity]
    /\ _next_order_id <= MaxOrders
    /\ _next_order_id' = _next_order_id + 1
    /\ IF side \notin {1, -1} \/ quantity <= 0 \/ price <= 0 \/ symbol = ""
       THEN /\ result' = "OrderError"
            /\ UNCHANGED <<_orders, _cash, _positions>>
       ELSE /\ _orders' = Put(_orders, _next_order_id,
                              Order(_next_order_id, timestamp, symbol, price,
                                    side, "PENDING", quantity))
            /\ result' = "ok"
            /\ UNCHANGED <<_cash, _positions>>
    /\ UNCHANGED engine_vars

create_order(timestamp, symbol, price, side, quantity) ==
    /\ call' = [op |-> "create_order", timestamp |-> timestamp,
                symbol |-> symbol, price |-> price, side |-> side,
                quantity |-> quantity]
    /\ IF side \notin {1, -1} \/ quantity <= 0 \/ price <= 0 \/ symbol = ""
       THEN /\ result' = "OrderError"
            /\ UNCHANGED om_vars
       ELSE /\ _next_order_id <= MaxOrders
            /\ _orders' = Put(_orders, _next_order_id,
                              Order(_next_order_id, timestamp, symbol, price,
                                    side, "PENDING", quantity))
            /\ _next_order_id' = _next_order_id + 1
            /\ result' = "ok"
            /\ UNCHANGED <<_cash, _positions>>
    /\ UNCHANGED engine_vars

\* variant: a sell is not checked against the units held
ValidateRaises_NoHoldingCheck(order) ==
    \/ order.quantity <= 0
    \/ order.price <= 0
    \/ order.status \notin {"PENDING", "EXECUTED", "CANCELLED", "FAILED"}
    \/ /\ order.side = 1
       /\ \/ order.quantity * order.price > _cash
          \/ order.quantity > PositionLimit

\* validate(order) raises OrderError
ValidateRaises(order) ==
    \/ order.quantity <= 0
    \/ order.price <= 0
    \/ order.status \notin {"PENDING", "EXECUTED", "CANCELLED", "FAILED"}
    \/ IF order.side = 1
       THEN \/ order.quantity * order.price > _cash
            \/ order.quantity > PositionLimit
       ELSE order.quantity > _positions

process_order(quantity, fill) ==
    IF fill = "EXECUTED" THEN <<"EXECUTED", quantity>>
    ELSE IF fill = "PARTIALLY_FILLED"
         THEN <<"PARTIALLY_FILLED", FloorDiv(quantity, 2)>>
    ELSE <<"FAILED", 0>>

\* Order.execute on a validated PENDING order
execute(order, fill) ==
    LET r == process_order(order.quantity, fill)
    IN IF r[1] \in {"EXECUTED", "PARTIALLY_FILLED"}
       THEN [order EXCEPT !.quantity = r[2], !.status = "EXECUTED"]
       ELSE [order EXCEPT !.status = "FAILED"]

exec_order(order_id, fill) ==
    LET order == Get(_orders, order_id, NoCall)
        valid == [order EXCEPT !.validated = TRUE]
    IN /\ Has(_orders, order_id)
       /\ call' = [op |-> "exec_order", order_id |-> order_id, fill |-> fill]
       /\ UNCHANGED <<_next_order_id, engine_vars>>
       /\ IF ValidateRaises(order)
          THEN /\ result' = "OrderError"
               /\ UNCHANGED <<_orders, _cash, _positions>>
          ELSE IF order.status # "PENDING"
               THEN /\ result' = "ExecutionError"
                    /\ _orders' = Put(_orders, order_id, valid)
                    /\ UNCHANGED <<_cash, _positions>>
               ELSE \E done \in {execute(valid, fill)} :
                        /\ result' = "ok"
                        /\ _orders' = Put(_orders, order_id, done)
                        /\ IF done.status = "EXECUTED"
                           THEN /\ _cash' =
                                     IF done.side = 1
                                     THEN _cash - done.quantity * done.price
                                     ELSE _cash + done.quantity * done.price
                                /\ _positions' =
                                     IF done.side = 1
                                     THEN _positions + done.quantity
                                     ELSE _positions - done.quantity
                           ELSE UNCHANGED <<_cash, _positions>>

CreateOrder ==
    \E timestamp \in OrderTimestamps, symbol \in OrderSymbols,
       price \in OrderPrices, side \in OrderSides,
       quantity \in OrderQuantities :
        create_order(timestamp, symbol, price, side, quantity)
        /\ UNCHANGED aux_vars

ExecOrder == \E order_id \in 1..MaxOrders, fill \in Fills :
                 exec_order(order_id, fill) /\ UNCHANGED aux_vars

NextOrders == CreateOrder \/ ExecOrder

SpecOrders == Init /\ [][NextOrders]_vars

\* ------------------------------------------- two engines side by side

\* BacktestEngine.on_tick on the engine record e, for a positive price
on_tick_engine(e, frac, t, outputs) ==
    LET e1 == [e EXCEPT
                 !.last_price = Put(@, t.symbol, t.close_price),
                 !.last_timestamp = Put(@, t.symbol, t.timestamp)]
        directions == Directions(outputs, t)
    IN IF NumStrategies(t.symbol) = 0 THEN e1
       ELSE Decide(e1, frac, t.symbol, t.close_price, t.timestamp,
                   Count(directions, 1), Count(directions, -1))

\* both engines receive the tick, and their producers return the same lists
on_tick_both(symbol, price, outputs) ==
    /\ on_tick(symbol, price, outputs)
    /\ \E e2 \in {on_tick_engine(twin, notional_frac_per_trade,
                                 [symbol |-> symbol, close_price |-> price,
                                  timestamp |-> clock + 1], outputs)} :
           twin' = e2
    /\ UNCHANGED <<live, strategy, alpaca>>

OnTickBoth == \E symbol \in Symbols, price \in Prices :
                  \E outputs \in ProducerOutputs(symbol) :
                      on_tick_both(symbol, price, outputs)

\* variant: the second instance iterates its positions in another order
finalize_both_OtherOrder ==
    /\ finalize
    /\ LET items == twin.positions
           reversed == [i \in 1..Len(items) |-> items[Len(items) + 1 - i]]
       IN \E e2 \in {FinalizeItems(twin, reversed)} : twin' = e2
    /\ UNCHANGED <<live, strategy, alpaca>>

finalize_both ==
    /\ finalize
    /\ \E e2 \in {FinalizeItems(twin, twin.positions)} : twin' = e2
    /\ UNCHANGED <<live, strategy, alpaca>>

NextBoth == OnTickBoth \/ finalize_both

SpecBoth == Init /\ [][NextBoth]_vars

\* ------------------------- two streams that agree on the ticks of symbol A

\* the two streams differ in the votes the other symbols' ticks get
on_tick_other(symbol, price, outputs, outputs2) ==
    /\ symbol # "A"
    /\ on_tick(symbol, price, outputs)
    /\ \E e2 \in {on_tick_engine(twin, notional_frac_per_trade,
                                 [symbol |-> symbol, close_price |-> price,
                                  timestamp |-> clock + 1], outputs2)} :
           twin' = e2
    /\ UNCHANGED <<live, strategy, alpaca>>

OnTickShared == \E price \in Prices :
                    \E outputs \in ProducerOutputs("A") :
                        on_tick_both("A", price, outputs)

OnTickOther == \E symbol \in Symbols \ {"A"}, price \in Prices :
                   \E outputs \in ProducerOutputs(symbol),
                      outputs2 \in ProducerOutputs(symbol) :
                       on_tick_other(symbol, price, outputs, outputs2)

NextStreams == OnTickShared \/ OnTickOther \/ finalize_both

SpecStreams == Init /\ [][NextStreams]_vars

\* ------------------------------------------- the live program's streams

\* the three websocket streams main() runs, each in a thread of its own
Streams == {"stock", "crypto", "trading"}

\* STOCK_UNIVERSE and CRYPTO_UNIVERSE, two and one symbol of each
StockUniverse == {"NVDA", "AAPL"}

CryptoUniverse == {"BTC/USD"}

\* variant: every symbol is subscribed on both data streams
Subscribed_OnBothDataStreams(stream, symbol) ==
    stream \in {"stock", "crypto"} /\ symbol \in StockUniverse \cup CryptoUniverse

\* the bar subscriptions main() makes
Subscribed(stream, symbol) ==
    \/ stream = "stock" /\ symbol \in StockUniverse
    \/ stream = "crypto" /\ symbol \in CryptoUniverse

NoBar == [kind |-> "none", symbol |-> "", seq |-> 0]

\* main() up to asyncio.gather: the callbacks are subscribed and the three
\* streams start, nothing has arrived yet
StartStreams ==
    /\ live = NoLive
    /\ live' = [started |-> TRUE,
                inbox   |-> [stream \in Streams |-> <<>>],
                running |-> [stream \in Streams |-> NoBar],
                arrived |-> <<>>,
                entered |-> <<>>]
    /\ UNCHANGED <<engine_vars, om_vars, call_vars, twin, strategy,
                    alpaca>>

\* a message reaches a stream's websocket: a bar of a subscribed symbol on a
\* data stream, an update of an NVDA order on the trading stream
Arrive(stream, kind, symbol) ==
    LET bar == [kind |-> kind, symbol |-> symbol,
                seq |-> Len(live.arrived) + 1]
    IN /\ live.started
       /\ Len(live.arrived) < MaxBars
       /\ IF stream = "trading" THEN kind = "update" /\ symbol = "NVDA"
          ELSE kind = "bar" /\ Subscribed(stream, symbol)
       /\ live' = [live EXCEPT !.inbox[stream] = Append(@, bar),
                               !.arrived = Append(@, bar)]
       /\ UNCHANGED <<engine_vars, om_vars, call_vars, twin, strategy,
                    alpaca>>

\* the stream's thread takes its next message and enters the callback:
\* on_stock_bar / on_crypto_bar call engine.on_tick, on_order_update calls
\* engine.handle_order_update
EnterCallback(stream) ==
    /\ live.started
    /\ live.running[stream] = NoBar
    /\ live.inbox[stream] # <<>>
    /\ live' = [live EXCEPT !.running[stream] = Head(live.inbox[stream]),
                            !.inbox[stream] = Tail(@),
                            !.entered = Append(@, Head(live.inbox[stream]))]
    /\ UNCHANGED <<engine_vars, om_vars, call_vars, twin, strategy,
                    alpaca>>

\* the callback returns; it has no await, so the thread ran nothing else
LeaveCallback(stream) ==
    /\ live.started
    /\ live.running[stream] # NoBar
    /\ live' = [live EXCEPT !.running[stream] = NoBar]
    /\ UNCHANGED <<engine_vars, om_vars, call_vars, twin, strategy,
                    alpaca>>

ArriveAny == \E stream \in Streams, kind \in {"bar", "update"},
                symbol \in StockUniverse \cup CryptoUniverse :
                 Arrive(stream, kind, symbol)

Enter == \E stream \in Streams : EnterCallback(stream)

Leave == \E stream \in Streams : LeaveCallback(stream)

NextDelivery == StartStreams \/ ArriveAny \/ Enter \/ Leave

SpecDelivery == Init /\ [][NextDelivery]_vars

\* ------------------------------- the decision of the live engine's on_tick

\* "/" in symbol, on the symbols of the two universes
is_crypto(symbol) == symbol \in CryptoUniverse

\* variant: the live engine opens shorts in crypto symbols as well
LiveDecide_ShortsCrypto(symbol, pos, nb, ns) ==
    IF nb = 0 /\ ns = 0 THEN "none"
    ELSE IF pos = 0
         THEN IF nb >= 2 /\ ns = 0 THEN "open_long"
              ELSE IF ns >= 2 /\ nb = 0 THEN "open_short"
              ELSE "none"
    ELSE IF pos > 0
         THEN IF ns >= 2 THEN "close" ELSE "none"
    ELSE IF nb >= 2 THEN "close" ELSE "none"

\* what LiveTradingEngine.on_tick calls once the votes are tallied, pos
\* being the side _get_position_side reports: _open_position "buy"
\* (open_long), _open_position "sell" (open_short), _close_position (close)
\* or nothing
LiveDecide(symbol, pos, nb, ns) ==
    IF nb = 0 /\ ns = 0 THEN "none"
    ELSE IF pos = 0
         THEN IF nb >= 2 /\ ns = 0 THEN "open_long"
              ELSE IF ~is_crypto(symbol) /\ ns >= 2 /\ nb = 0
                   THEN "open_short"
              ELSE "none"
    ELSE IF pos > 0
         THEN IF ns >= 2 THEN "close" ELSE "none"
    ELSE IF nb >= 2 THEN "close" ELSE "none"

\* what BacktestEngine.on_tick does for the same tally on an engine that
\* holds pos * 20 units of the symbol and can afford an open at price 100
BacktestDecide(symbol, pos, nb, ns) ==
    LET e0 == [cash |-> InitialCapital,
               positions |-> IF pos = 0 THEN <<>>
                             ELSE <<<<symbol, pos * 20>>>>,
               entry_price |-> IF pos = 0 THEN <<>>
                               ELSE <<<<symbol, 100>>>>,
               last_price |-> <<<<symbol, 100>>>>,
               last_timestamp |-> <<<<symbol, 1>>>>,
               trades |-> <<>>]
        e1 == Decide(e0, <<1, 50>>, symbol, 100, 1, nb, ns)
    IN IF e1.trades = <<>> THEN "none"
       ELSE IF pos # 0 THEN "close"
       ELSE IF e1.trades[1].side = "BUY" THEN "open_long"
       ELSE "open_short"

\* vote tallies of the three producers registered per live symbol
Tallies == {t \in (0..3) \X (0..3) : t[1] + t[2] <= 3}

decide_call(symbol, pos, nb, ns) ==
    /\ call' = [op |-> "on_tick", symbol |-> symbol, pos |-> pos,
                num_buy |-> nb, num_sell |-> ns]
    /\ result' = [live |-> LiveDecide(symbol, pos, nb, ns),
                  backtest |-> BacktestDecide(symbol, pos, nb, ns)]
    /\ UNCHANGED <<engine_vars, om_vars>>

DecideCall == \E symbol \in StockUniverse \cup CryptoUniverse,
                 pos \in {-1, 0, 1}, t \in Tallies :
                  decide_call(symbol, pos, t[1], t[2]) /\ UNCHANGED aux_vars

SpecMirror == Init /\ [][DecideCall]_vars

\* ------------------------------------ Order methods called on their own

\* OrderManager.validate(order)
validate_call(order_id) ==
    LET order == Get(_orders, order_id, NoCall)
    IN /\ Has(_orders, order_id)
       /\ call' = [op |-> "validate", order_id |-> order_id]
       /\ IF ValidateRaises(order)
          THEN result' = "OrderError" /\ UNCHANGED _orders
          ELSE /\ result' = "ok"
               /\ _orders' = Put(_orders, order_id,
                                 [order EXCEPT !.validated = TRUE])
       /\ UNCHANGED <<_next_order_id, _cash, _positions, engine_vars>>

\* Order.execute()
execute_call(order_id, fill) ==
    LET order == Get(_orders, order_id, NoCall)
    IN /\ Has(_orders, order_id)
       /\ call' = [op |-> "execute", order_id |-> order_id, fill |-> fill]
       /\ IF order.status # "PENDING" \/ ~order.validated
          THEN result' = "ExecutionError" /\ UNCHANGED _orders
          ELSE /\ result' = "ok"
               /\ _orders' = Put(_orders, order_id, execute(order, fill))
       /\ UNCHANGED <<_next_order_id, _cash, _positions, engine_vars>>

\* variant: cancel does not look at the status
cancel_AnyStatus(order_id) ==
    LET order == Get(_orders, order_id, NoCall)
    IN /\ Has(_orders, order_id)
       /\ call' = [op |-> "cancel", order_id |-> order_id]
       /\ IF ~order.validated
          THEN result' = "ExecutionError" /\ UNCHANGED _orders
          ELSE /\ result' = "ok"
               /\ _orders' = Put(_orders, order_id,
                                 [order EXCEPT !.status = "CANCELLED"])
       /\ UNCHANGED <<_next_order_id, _cash, _positions, engine_vars>>

\* Order.cancel()
cancel(order_id) ==
    LET order == Get(_orders, order_id, NoCall)
    IN /\ Has(_orders, order_id)
       /\ call' = [op |-> "cancel", order_id |-> order_id]
       /\ IF order.status # "PENDING" \/ ~order.validated
          THEN result' = "ExecutionError" /\ UNCHANGED _orders
          ELSE /\ result' = "ok"
               /\ _orders' = Put(_orders, order_id,
                                 [order EXCEPT !.status = "CANCELLED"])
       /\ UNCHANGED <<_next_order_id, _cash, _positions, engine_vars>>

ValidateOrder == \E order_id \in 1..MaxOrders :
                     validate_call(order_id) /\ UNCHANGED aux_vars

ExecuteOrder == \E order_id \in 1..MaxOrders, fill \in Fills :
                    execute_call(order_id, fill) /\ UNCHANGED aux_vars

CancelOrder == \E order_id \in 1..MaxOrders :
                   cancel(order_id) /\ UNCHANGED aux_vars

\* the orders whose lifecycle is followed: accepted by create_order
CreateAccepted ==
    \E side \in {1, -1}, quantity \in OrderQuantities \ {0} :
        create_order(1, "NVDA", 60, side, quantity) /\ UNCHANGED aux_vars

NextLifecycle ==
    CreateAccepted \/ ExecOrder \/ ValidateOrder \/ ExecuteOrder
        \/ CancelOrder

SpecLifecycle == Init /\ [][NextLifecycle]_vars

\* ------------------------------------------------------- signal producers

\* RSI, BB and Zscore share one state machine and differ in their indicator,
\* its levels and the length of the warm-up.  The indicator itself (pandas_ta
\* over the price window) is an input: any value, or NaN.
StrategyKinds == {"RSI", "BB", "Zscore"}

\* levels the indicator is compared with: RSI(overbought=80, oversold=20) in
\* RSI points, BB in hundredths of the band width (1, 0.9, 0.1, 0), Zscore
\* with std=2.0 in hundredths (std, std - 1, -std + 1, -std)
Levels(kind) ==
    CASE kind = "RSI" ->
           [overbought |-> 80, overbought_closed |-> 80 - 10,
            oversold_closed |-> 20 + 10, oversold |-> 20,
            _min_window |-> 20]
      [] kind = "BB" ->
           [overbought |-> 100, overbought_closed |-> 90,
            oversold_closed |-> 10, oversold |-> 0,
            _min_window |-> 35]
      [] OTHER ->
           [overbought |-> 200, overbought_closed |-> 200 - 100,
            oversold_closed |-> 100 - 200, oversold |-> 0 - 200,
            _min_window |-> 80]

\* indicator values on every level and within every band between them
Indicators(kind) ==
    LET l == Levels(kind)
    IN {l.oversold - 10, l.oversold,
        (l.oversold + l.oversold_closed) \div 2, l.oversold_closed,
        (l.oversold_closed + l.overbought_closed) \div 2,
        l.overbought_closed,
        (l.overbought_closed + l.overbought) \div 2, l.overbought,
        l.overbought + 10}

\* __init__; _prices is the number of rows of the price frame, output the
\* directions of the list the latest call returned, previous the direction
\* of the last signal returned by an earlier call (0: none yet)
Strategy(kind) ==
    [kind |-> kind,
     _prices |-> 0,
     _min_window |-> Levels(kind)._min_window,
     _was_overbought |-> FALSE,
     _was_oversold |-> FALSE,
     _flag |-> FALSE,
     _last_action |-> 0,
     _overboughtregime |-> FALSE,
     _oversoldregime |-> FALSE,
     output |-> <<>>,
     previous |-> 0]

\* variant: entering the oversold zone buys whatever the last action was
emit_signals_OversoldIgnoresLastAction(s, x) ==
    LET l == Levels(s.kind)
        is_overbought == x > l.overbought
        overbought_closed == x < l.overbought_closed
        is_oversold == x < l.oversold
        oversold_closed == x > l.oversold_closed
        s1 == IF is_overbought # s._was_overbought /\ is_overbought
                  /\ s._last_action # -1
              THEN [s EXCEPT !._last_action = -1,
                             !._overboughtregime = TRUE,
                             !.output = Append(@, -1)]
              ELSE s
        s2 == IF overbought_closed /\ s1._last_action = -1
                  /\ s1._overboughtregime
              THEN [s1 EXCEPT !._overboughtregime = FALSE,
                              !._last_action = 1,
                              !.output = Append(@, 1)]
              ELSE s1
        s3 == IF is_oversold # s2._was_oversold /\ is_oversold
              THEN [s2 EXCEPT !._oversoldregime = TRUE,
                              !._last_action = 1,
                              !.output = Append(@, 1)]
              ELSE s2
        s4 == IF oversold_closed /\ s3._last_action = 1
                  /\ s3._oversoldregime
              THEN [s3 EXCEPT !._oversoldregime = FALSE,
                              !._last_action = -1,
                              !.output = Append(@, -1)]
              ELSE s3
    IN [s4 EXCEPT !._was_overbought = is_overbought,
                  !._was_oversold = is_oversold]

\* generate_signals once the flag is set: the four emissions in the order of
\* the code, then the update of the two zone flags
emit_signals(s, x) ==
    LET l == Levels(s.kind)
        is_overbought == x > l.overbought
        overbought_closed == x < l.overbought_closed
        is_oversold == x < l.oversold
        oversold_closed == x > l.oversold_closed
        s1 == IF is_overbought # s._was_overbought /\ is_overbought
                  /\ s._last_action # -1
              THEN [s EXCEPT !._last_action = -1,
                             !._overboughtregime = TRUE,
                             !.output = Append(@, -1)]
              ELSE s
        s2 == IF overbought_closed /\ s1._last_action = -1
                  /\ s1._overboughtregime
              THEN [s1 EXCEPT !._overboughtregime = FALSE,
                              !._last_action = 1,
                              !.output = Append(@, 1)]
              ELSE s1
        s3 == IF is_oversold # s2._was_oversold /\ is_oversold
                  /\ s2._last_action # 1
              THEN [s2 EXCEPT !._oversoldregime = TRUE,
                              !._last_action = 1,
                              !.output = Append(@, 1)]
              ELSE s2
        s4 == IF oversold_closed /\ s3._last_action = 1
                  /\ s3._oversoldregime
              THEN [s3 EXCEPT !._oversoldregime = FALSE,
                              !._last_action = -1,
                              !.output = Append(@, -1)]
              ELSE s3
    IN [s4 EXCEPT !._was_overbought = is_overbought,
                  !._was_oversold = is_oversold]

\* generate_signals(tick): the price is appended and the frame cut to its
\* last _min_window + 20 rows; nothing is returned during the warm-up, on a
\* NaN indicator, or before the indicator has been strictly inside its band
generate_signals(isna, x) ==
    LET l == Levels(strategy.kind)
        rows == strategy._prices + 1
        s0 == [strategy EXCEPT
                 !._prices = IF rows > l._min_window + 20
                             THEN l._min_window + 20 ELSE rows,
                 !.previous = IF strategy.output = <<>> THEN @
                              ELSE strategy.output[Len(strategy.output)],
                 !.output = <<>>]
        s1 == IF x < l.overbought /\ x > l.oversold
              THEN [s0 EXCEPT !._flag = TRUE] ELSE s0
    IN /\ strategy.kind \in StrategyKinds
       /\ strategy' = IF rows < strategy._min_window THEN s0
                      ELSE IF isna THEN s0
                      ELSE IF ~s1._flag THEN s1
                      ELSE emit_signals(s1, x)
       /\ UNCHANGED <<engine_vars, om_vars, call_vars, twin, live, alpaca>>

NewStrategy == \E kind \in StrategyKinds :
                   /\ strategy = NoStrategy
                   /\ strategy' = Strategy(kind)
                   /\ UNCHANGED <<engine_vars, om_vars, call_vars, twin,
                                  live, alpaca>>

GenerateSignals == \E isna \in BOOLEAN :
                       \E x \in Indicators(strategy.kind) :
                           generate_signals(isna, x)

NextProducer == NewStrategy \/ GenerateSignals

SpecProducer == Init /\ [][NextProducer]_vars

\* ------------------------------------------- live engine and its broker

\* one stock and one crypto symbol of the live universe, and bar closes
LiveSymbols == {"NVDA", "BTC/USD"}

LivePrices == {3, 7}

\* round(num / den, 6) in millionths: Python rounds half to even
Round6(num, den) ==
    LET q == FloorDiv(num * 1000000, den)
        r == num * 1000000 - q * den
    IN IF 2 * r > den THEN q + 1
       ELSE IF 2 * r < den THEN q
       ELSE IF q % 2 = 0 THEN q ELSE q + 1

\* get_position returned None
NoPosition == [side |-> "none", qty |-> 0]

\* submit_market_order / close_position were not called
NoOrder == [symbol |-> "", side |-> "none", qty |-> 0, via |-> "none",
            purpose |-> "none", reported |-> 0, filled |-> FALSE]

\* AlpacaAPI.get_position: the Position object of an open position, None
\* when there is none.  Stock quantities are in shares, crypto quantities in
\* millionths of a coin.  signed_qty is the broker's convention for the qty
\* of a short: negative, or the absolute size.
get_position(symbol) ==
    LET held == alpaca.positions[symbol]
    IN IF held = 0 THEN NoPosition
       ELSE IF held > 0 THEN [side |-> "long", qty |-> held]
       ELSE [side |-> "short",
             qty |-> IF alpaca.signed_qty THEN held ELSE 0 - held]

_get_position_side(symbol) ==
    LET pos == get_position(symbol)
    IN IF pos = NoPosition THEN 0
       ELSE IF pos.side = "long" THEN 1
       ELSE IF pos.side = "short" THEN -1
       ELSE 0

\* LiveTradingEngine._position_size: equity and cash are what the account
\* reports
live_position_size(symbol, price, side) ==
    LET frac == notional_frac_per_trade
        port_val == alpaca.equity
    IN IF port_val * frac[1] <= 0 THEN 0
       ELSE LET qty == IF is_crypto(symbol)
                       THEN Round6(port_val * frac[1], frac[2] * price)
                       ELSE FloorDiv(port_val * frac[1], frac[2] * price)
            IN IF qty <= 0 THEN 0
               ELSE IF side = "buy"
                    THEN LET max_affordable ==
                                 IF is_crypto(symbol)
                                 THEN Round6(alpaca.cash, price)
                                 ELSE FloorDiv(alpaca.cash, price)
                         IN IF Min(qty, max_affordable) <= 0 THEN 0
                            ELSE Min(qty, max_affordable)
                    ELSE qty

\* LiveTradingEngine._open_position: the order it submits, if any
live_open_position(symbol, side, price) ==
    LET qty == live_position_size(symbol, price, side)
    IN IF qty <= 0 THEN NoOrder
       ELSE [symbol |-> symbol, side |-> side, qty |-> qty,
             via |-> "submit_market_order", purpose |-> "open",
             reported |-> _get_position_side(symbol), filled |-> FALSE]

\* LiveTradingEngine._close_position: the order it submits, if any.  A
\* crypto position is closed by the broker's close_position, which sends the
\* opposite side for whatever is held when it fills (qty 0 here).
live_close_position(symbol) ==
    LET pos == get_position(symbol)
    IN IF pos = NoPosition THEN NoOrder
       ELSE IF is_crypto(symbol)
            THEN [symbol |-> symbol,
                  side |-> IF pos.side = "long" THEN "sell" ELSE "buy",
                  qty |-> 0, via |-> "close_position",
                  purpose |-> "close",
                  reported |-> _get_position_side(symbol),
                  filled |-> FALSE]
       ELSE IF pos.qty <= 0 THEN NoOrder
       ELSE [symbol |-> symbol,
             side |-> IF pos.side = "long" THEN "sell" ELSE "buy",
             qty |-> pos.qty, via |-> "submit_market_order",
             purpose |-> "close",
             reported |-> _get_position_side(symbol), filled |-> FALSE]

\* LiveTradingEngine.on_tick for a tick whose producers voted nb / ns
live_on_tick(symbol, price, nb, ns) ==
    LET action == LiveDecide(symbol, _get_position_side(symbol), nb, ns)
        order == IF action = "open_long"
                 THEN live_open_position(symbol, "buy", price)
                 ELSE IF action = "open_short"
                 THEN live_open_position(symbol, "sell", price)
                 ELSE IF action = "close"
                 THEN live_close_position(symbol)
                 ELSE NoOrder
    IN /\ alpaca.connected
       /\ clock < MaxTicks
       /\ clock' = clock + 1
       /\ call' = [op |-> "live_on_tick", symbol |-> symbol,
                   price |-> price, num_buy |-> nb, num_sell |-> ns,
                   pos |-> get_position(symbol)]
       /\ \E o \in {order} :
              /\ result' = o
              /\ alpaca' = IF o = NoOrder THEN alpaca
                           ELSE [alpaca EXCEPT !.orders = Append(@, o)]
       /\ UNCHANGED <<notional_frac_per_trade, cash, positions, entry_price,
                      last_price, last_timestamp, trades, pc, tick, num_buy,
                      num_sell, om_vars, twin, live, strategy>>

\* main(): the engine is built on a paper account that holds nothing
Connect ==
    \E signed_qty \in BOOLEAN, balance \in {0, 1000} :
        /\ alpaca = NoAlpaca
        /\ alpaca' = [connected |-> TRUE,
                      equity |-> 1000,
                      cash |-> balance,
                      positions |-> [symbol \in LiveSymbols |-> 0],
                      orders |-> <<>>,
                      signed_qty |-> signed_qty]
        /\ UNCHANGED <<engine_vars, om_vars, call_vars, twin, live,
                       strategy>>

\* the broker fills a submitted order; only then does the position it
\* reports change
BrokerFill ==
    \E i \in 1..MaxTicks :
        /\ alpaca.connected
        /\ i <= Len(alpaca.orders)
        /\ ~alpaca.orders[i].filled
        /\ LET o == alpaca.orders[i]
               held == alpaca.positions[o.symbol]
           IN alpaca' = [alpaca EXCEPT
                           !.orders[i].filled = TRUE,
                           !.positions[o.symbol] =
                               IF o.via = "close_position" THEN 0
                               ELSE IF o.side = "buy" THEN held + o.qty
                               ELSE held - o.qty]
        /\ UNCHANGED <<engine_vars, om_vars, call_vars, twin, live,
                       strategy>>

LiveOnTick == \E symbol \in LiveSymbols, price \in LivePrices,
                 t \in Tallies :
                  live_on_tick(symbol, price, t[1], t[2])

NextLive == Connect \/ LiveOnTick \/ BrokerFill

SpecLive == Init /\ [][NextLive]_vars

\* ================================================================ claims

Pos(s) == Get(positions, s, 0)

LastTrade == trades[Len(trades)]

\* the step is an on_tick call / a finalize call
OnTickStep == clock' = clock + 1

FinalizeStep == pc' = "finalized" /\ clock' = clock

\* a trade was appended by the step
Appended == Len(trades') = Len(trades) + 1

\* the engine as on_tick sees it after marking the tick
Marked ==
    [Engine EXCEPT !.last_price = last_price',
                   !.last_timestamp = last_timestamp']

IsPrefix(a, b) == Len(a) <= Len(b) /\ \A i \in 1..Len(a) : a[i] = b[i]

\* C1: in every reachable state, for every symbol, entry_price has an entry
\* for the symbol iff positions[symbol] is nonzero (so a close leaves the
\* symbol without an entry price).
C1_EntryPriceIffPosition ==
    \A s \in Symbols : Has(entry_price, s) <=> Pos(s) # 0

\* unrealized PnL of the open positions at the last seen prices
RECURSIVE UnrealizedOf(_)
UnrealizedOf(items) ==
    IF items = <<>> THEN 0
    ELSE LET s == Head(items)[1]
             q == Head(items)[2]
         IN (IF q = 0 THEN 0
             ELSE q * (Get(last_price, s, 0) - Get(entry_price, s, 0)))
            + UnrealizedOf(Tail(items))

Unrealized == UnrealizedOf(positions)

\* C2: conservation - the PnL of all logged trades plus the unrealized PnL
\* of the open positions equals portfolio_value() - initial_capital.
C2_Conservation ==
    SumPnl(trades) + Unrealized = portfolio_value(Engine) - InitialCapital

\* a position is open away from its entry price after two trades
C2_Witness ==
    /\ Len(trades) >= 2
    /\ Unrealized # 0
    /\ pc = "streaming"

\* C3: a BUY that opens a long has qty <= floor(cash / price) on the cash
\* before the trade, never takes cash from non-negative to negative, and
\* is not made at all when the cash is below the price.
C3_Affordability ==
    [][\A s \in Symbols :
          (OnTickStep /\ Pos(s) = 0 /\ Get(positions', s, 0) > 0) =>
              LET t == trades'[Len(trades')]
              IN /\ Appended
                 /\ t.side = "BUY"
                 /\ t.qty = Get(positions', s, 0)
                 /\ t.qty <= FloorDiv(cash, t.price)
                 /\ cash >= t.price
                 /\ cash' = cash - t.qty * t.price
                 /\ (cash >= 0 => cash' >= 0)]_vars

\* a second long was bought with what the first one left over: the cash
\* cap, not the notional target, set its size
C3_Witness ==
    /\ Len(trades) = 2
    /\ LastTrade.side = "BUY"
    /\ trades[1].side = "BUY"
    /\ Pos(LastTrade.symbol) = LastTrade.qty
    /\ Pos(trades[1].symbol) = trades[1].qty
    /\ LastTrade.symbol # trades[1].symbol
    /\ LastTrade.qty * LastTrade.price
         < FloorDiv((cash + LastTrade.qty * LastTrade.price
                          + trades[1].qty * Get(last_price, trades[1].symbol, 0))
                    * notional_frac_per_trade[1],
                    notional_frac_per_trade[2] * LastTrade.price)
           * LastTrade.price

\* C4 (as claimed): on_tick appends a trade only when at least 2 votes
\* agree with the direction of the action and zero votes oppose it, for
\* closes as well as for opens.
C4_ConsensusForEveryAction ==
    [][(OnTickStep /\ Appended) =>
          LET t == trades'[Len(trades')]
          IN /\ t.side = "BUY"  => (num_buy' >= 2 /\ num_sell' = 0)
             /\ t.side = "SELL" => (num_sell' >= 2 /\ num_buy' = 0)]_vars

\* C4 (amended): on_tick appends a trade only when at least 2 votes agree
\* with the direction of the action; an open also needs zero opposing
\* votes, a close does not.
C4_ConsensusAmended ==
    [][(OnTickStep /\ Appended) =>
          LET t == trades'[Len(trades')]
              opens == Get(positions, t.symbol, 0) = 0
          IN /\ t.side = "BUY"  => (num_buy' >= 2 /\ (opens => num_sell' = 0))
             /\ t.side = "SELL" => (num_sell' >= 2 /\ (opens => num_buy' = 0))]_vars

\* a position was closed on this tick although a vote opposed the close
C4_Witness ==
    /\ pc = "streaming"
    /\ Len(trades) >= 2
    /\ LastTrade.timestamp = clock
    /\ LastTrade.symbol = tick.symbol
    /\ Pos(tick.symbol) = 0
    /\ num_buy >= 1
    /\ num_sell >= 1

\* C5 (as claimed): from FLAT, on_tick opens a long exactly when
\* buy_votes >= 2 and sell_votes = 0 and a short exactly when
\* sell_votes >= 2 and buy_votes = 0, and the symbol is then LONG
\* respectively SHORT.
C5_EntryRule ==
    [][\A s \in Keys(StrategiesBySymbol) :
          (OnTickStep /\ tick'.symbol = s /\ Pos(s) = 0) =>
              /\ (num_buy' >= 2 /\ num_sell' = 0) <=> Get(positions', s, 0) > 0
              /\ (num_sell' >= 2 /\ num_buy' = 0) <=> Get(positions', s, 0) < 0]_vars

\* C5 (amended): from FLAT, the symbol becomes LONG exactly when
\* buy_votes >= 2, sell_votes = 0 and the sized BUY quantity is positive,
\* and SHORT exactly when sell_votes >= 2, buy_votes = 0 and the sized
\* SELL quantity is positive; with a sized quantity of 0 it stays FLAT.
C5_EntryRuleAmended ==
    [][\A s \in Keys(StrategiesBySymbol) :
          (OnTickStep /\ tick'.symbol = s /\ Pos(s) = 0) =>
              /\ (/\ num_buy' >= 2
                  /\ num_sell' = 0
                  /\ _position_size(Marked, notional_frac_per_trade,
                                    tick'.close_price, "BUY") > 0)
                 <=> Get(positions', s, 0) > 0
              /\ (/\ num_sell' >= 2
                  /\ num_buy' = 0
                  /\ _position_size(Marked, notional_frac_per_trade,
                                    tick'.close_price, "SELL") > 0)
                 <=> Get(positions', s, 0) < 0]_vars

\* three producers voted (+1, +1, 0) on a flat symbol and it went long
C5_Witness ==
    /\ tick.symbol = "A"
    /\ num_buy = 2
    /\ num_sell = 0
    /\ Len(trades) >= 1
    /\ LastTrade.timestamp = clock
    /\ LastTrade.symbol = "A"
    /\ LastTrade.side = "BUY"
    /\ Pos("A") > 0

\* C6: a LONG symbol with sell_votes >= 2 and a SHORT symbol with
\* buy_votes >= 2 is closed and FLAT after the tick, and on_tick closes a
\* position on no other vote configuration.
C6_ExitRule ==
    [][OnTickStep =>
          /\ (Pos(tick'.symbol) > 0 /\ num_sell' >= 2) =>
                 (Get(positions', tick'.symbol, 0) = 0 /\ Appended)
          /\ (Pos(tick'.symbol) < 0 /\ num_buy' >= 2) =>
                 (Get(positions', tick'.symbol, 0) = 0 /\ Appended)
          /\ \A s \in Symbols :
                 (Pos(s) # 0 /\ Get(positions', s, 0) = 0) =>
                     /\ s = tick'.symbol
                     /\ \/ Pos(s) > 0 /\ num_sell' >= 2
                        \/ Pos(s) < 0 /\ num_buy' >= 2]_vars

\* a short was bought back on this tick on two buy votes
C6_Witness ==
    /\ pc = "streaming"
    /\ Len(trades) >= 2
    /\ LastTrade.timestamp = clock
    /\ LastTrade.side = "BUY"
    /\ LastTrade.symbol = tick.symbol
    /\ Pos(tick.symbol) = 0
    /\ num_buy >= 2

\* C7: while a symbol is FLAT, a tick with at least one +1 vote and at
\* least one -1 vote leaves cash, positions, entry_price and the trade log
\* unchanged.
C7_VoteAmbiguity ==
    [][(OnTickStep /\ Pos(tick'.symbol) = 0
                   /\ num_buy' >= 1 /\ num_sell' >= 1) =>
          UNCHANGED <<cash, positions, entry_price, trades>>]_vars

\* three producers voted (+1, +1, -1) on a flat symbol
C7_Witness ==
    /\ pc = "streaming"
    /\ tick.symbol = "A"
    /\ num_buy = 2
    /\ num_sell = 1
    /\ Pos("A") = 0
    /\ ~Has(entry_price, "A")

\* C8: across one on_tick call the position of a symbol goes 0 -> nonzero,
\* nonzero -> 0 or stays equal: no flip of sign and no change of the size
\* of a held position.
C8_NoFlipNoResize ==
    [][OnTickStep =>
          \A s \in Symbols :
              \/ Get(positions', s, 0) = Pos(s)
              \/ Pos(s) = 0
              \/ Get(positions', s, 0) = 0]_vars

\* a long that was opened on an earlier tick saw buy consensus again
C8_Witness ==
    /\ pc = "streaming"
    /\ Pos(tick.symbol) > 0
    /\ num_buy >= 2
    /\ num_sell = 0
    /\ Len(trades) >= 1
    /\ LastTrade.timestamp < clock

\* C9: one on_tick call appends at most one Trade, for tick.symbol, and a
\* tick that closes a position does not reopen one in the same call.
C9_OneDecisionPerTick ==
    [][OnTickStep =>
          /\ IsPrefix(trades, trades')
          /\ Len(trades') <= Len(trades) + 1
          /\ Appended => trades'[Len(trades')].symbol = tick'.symbol
          /\ (Appended /\ Pos(tick'.symbol) # 0) =>
                 Get(positions', tick'.symbol, 0) = 0]_vars

\* a long was closed on unanimous sell votes, which would also have
\* satisfied the entry rule for a short, and the symbol is flat
C9_Witness ==
    /\ pc = "streaming"
    /\ Len(trades) >= 2
    /\ LastTrade.timestamp = clock
    /\ LastTrade.side = "SELL"
    /\ LastTrade.symbol = tick.symbol
    /\ Pos(tick.symbol) = 0
    /\ num_sell >= 2
    /\ num_buy = 0

\* C10: after finalize every position is 0, and finalize closes each open
\* position at that symbol's last recorded price and timestamp.
C10_FinalizeFlattens ==
    /\ [](pc = "finalized" => \A s \in Symbols : Pos(s) = 0)
    /\ [][FinalizeStep =>
            \A s \in Symbols :
                Pos(s) # 0 =>
                    \E i \in (Len(trades) + 1)..Len(trades') :
                        /\ trades'[i].symbol = s
                        /\ trades'[i].qty = Abs(Pos(s))
                        /\ trades'[i].price = Get(last_price, s, 0)
                        /\ trades'[i].timestamp = Get(last_timestamp, s, 0)]_vars

\* finalize closed a long and a short, one of them at a timestamp older
\* than the last tick of the stream
C10_Witness ==
    /\ pc = "finalized"
    /\ Len(trades) = 4
    /\ trades[3].symbol # trades[4].symbol
    /\ trades[3].side # trades[4].side
    /\ trades[3].timestamp < clock
    /\ trades[3].timestamp = Get(last_timestamp, trades[3].symbol, 0)
    /\ trades[4].timestamp = Get(last_timestamp, trades[4].symbol, 0)
    /\ \A s \in Symbols : Pos(s) = 0

\* C11: finalize on a symbol LONG with quantity Q, entry price E and last
\* price P appends exactly one Trade for that symbol, a SELL of Q at P with
\* pnl (P - E) * Q, and a second finalize appends nothing.
C11_FinalizeRealizesOnce ==
    [][FinalizeStep =>
          /\ \A s \in Symbols :
                 Pos(s) > 0 =>
                     LET new == {i \in (Len(trades) + 1)..Len(trades') :
                                     trades'[i].symbol = s}
                         P == Get(last_price, s, 0)
                         E == Get(entry_price, s, 0)
                     IN /\ Cardinality(new) = 1
                        /\ \A i \in new :
                               /\ trades'[i].side = "SELL"
                               /\ trades'[i].qty = Pos(s)
                               /\ trades'[i].price = P
                               /\ trades'[i].pnl = (P - E) * Pos(s)
          /\ pc = "finalized" => trades' = trades]_vars

\* finalize, not the last tick (which carried no sell vote), sold a long
\* away from its entry price
C11_Witness ==
    /\ pc = "finalized"
    /\ Len(trades) >= 2
    /\ LastTrade.side = "SELL"
    /\ LastTrade.pnl # 0
    /\ LastTrade.symbol = tick.symbol
    /\ LastTrade.timestamp = clock
    /\ num_sell = 0
    /\ Pos(tick.symbol) = 0

\* C18: a close of a long of q at entry E and price p adds q*p to cash and
\* logs a SELL of q with pnl (p - E)*q; a close of a short of q subtracts
\* q*p and logs a BUY of q with pnl (E - p)*q; _close_position on a flat
\* symbol changes nothing.
C18_CloseArithmetic ==
    /\ [][OnTickStep =>
            \A s \in Symbols :
                (Pos(s) # 0 /\ Get(positions', s, 0) = 0) =>
                    LET t == trades'[Len(trades')]
                        q == Abs(Pos(s))
                        E == Get(entry_price, s, 0)
                        p == tick'.close_price
                    IN /\ Appended
                       /\ t.symbol = s
                       /\ t.qty = q
                       /\ t.price = p
                       /\ t.timestamp = tick'.timestamp
                       /\ IF Pos(s) > 0
                          THEN /\ cash' = cash + q * p
                               /\ t.side = "SELL"
                               /\ t.pnl = (p - E) * q
                          ELSE /\ cash' = cash - q * p
                               /\ t.side = "BUY"
                               /\ t.pnl = (E - p) * q]_vars
    /\ [](\A s \in Symbols, p \in Prices :
              Pos(s) = 0 => _close_position(Engine, s, p, clock) = Engine)

\* a short was bought back on this tick away from its entry price
C18_Witness ==
    /\ pc = "streaming"
    /\ Len(trades) >= 2
    /\ LastTrade.timestamp = clock
    /\ LastTrade.side = "BUY"
    /\ LastTrade.pnl # 0
    /\ LastTrade.symbol = tick.symbol
    /\ Pos(tick.symbol) = 0

\* C19: a BUY open of q > 0 at p subtracts q*p from cash and adds q to the
\* position, a SELL open adds q*p and subtracts q; both set
\* entry_price[symbol] = p and append one Trade with pnl 0; with a sized
\* quantity of 0 nothing changes.
C19_OpenArithmetic ==
    [][OnTickStep =>
          \A s \in Keys(StrategiesBySymbol) :
              LET p == tick'.close_price
                  t == trades'[Len(trades')]
                  buy  == num_buy' >= 2 /\ num_sell' = 0
                  sell == num_sell' >= 2 /\ num_buy' = 0
              IN /\ (Pos(s) = 0 /\ Get(positions', s, 0) # 0) =>
                        /\ tick'.symbol = s
                        /\ Appended
                        /\ t = Trade(s, tick'.timestamp, t.side, t.qty, p, 0)
                        /\ t.qty > 0
                        /\ Get(entry_price', s, 0) = p
                        /\ Has(entry_price', s)
                        /\ IF buy
                           THEN /\ t.side = "BUY"
                                /\ cash' = cash - t.qty * p
                                /\ Get(positions', s, 0) = t.qty
                           ELSE /\ sell
                                /\ t.side = "SELL"
                                /\ cash' = cash + t.qty * p
                                /\ Get(positions', s, 0) = 0 - t.qty
                 /\ (/\ tick'.symbol = s
                     /\ Pos(s) = 0
                     /\ \/ buy /\ _position_size(Marked,
                                      notional_frac_per_trade, p, "BUY") = 0
                        \/ sell /\ _position_size(Marked,
                                      notional_frac_per_trade, p, "SELL") = 0)
                    => UNCHANGED <<cash, positions, entry_price, trades>>]_vars

\* a short was opened on this tick
C19_Witness ==
    /\ pc = "streaming"
    /\ Len(trades) >= 1
    /\ LastTrade.timestamp = clock
    /\ LastTrade.side = "SELL"
    /\ LastTrade.pnl = 0
    /\ LastTrade.symbol = tick.symbol
    /\ Pos(tick.symbol) = 0 - LastTrade.qty
    /\ Get(entry_price, tick.symbol, 0) = LastTrade.price

\* C12: a producer that raises while on_tick evaluates a tick is contained:
\* on_tick returns normally, so later ticks and other symbols are processed.
C12_FaultContained ==
    [][OnTickStep => pc' = "streaming"]_vars

\* C13: _position_size returns 0 for every price <= 0 without raising, so a
\* consensus tick with a non-positive price returns normally and opens
\* nothing.
C13_SizingNeverFails ==
    [][(OnTickStep /\ tick'.close_price <= 0) =>
          /\ pc' = "streaming"
          /\ Pos(tick'.symbol) = 0 =>
                 UNCHANGED <<cash, positions, entry_price, trades>>]_vars

\* C14: a tick with a non-positive close price leaves cash, positions,
\* entry_price, last_price, last_timestamp and the trade log as they were.
C14_BadPriceRejected ==
    [][(OnTickStep /\ tick'.close_price <= 0) =>
          UNCHANGED <<cash, positions, entry_price, last_price,
                      last_timestamp, trades>>]_vars

\* C17: with initial_capital 100000, notional_frac_per_trade 0.02 and 3
\* producers, a tick at 100 with votes (+1, +1, 0) opens 20 shares leaving
\* cash 98000; a following tick at 110 with votes (-1, -1, 0) closes the
\* long leaving cash 100200, position 0 and a closing trade with pnl 200.
C17_EndToEnd ==
    [][OnTickStep =>
          /\ (/\ clock = 0
              /\ tick'.close_price = 100
              /\ num_buy' = 2
              /\ num_sell' = 0)
             => /\ cash' = 98000
                /\ Get(positions', "A", 0) = 20
                /\ trades' = <<Trade("A", 1, "BUY", 20, 100, 0)>>
          /\ (/\ cash = 98000
              /\ Pos("A") = 20
              /\ Get(entry_price, "A", 0) = 100
              /\ tick'.close_price = 110
              /\ num_buy' = 0
              /\ num_sell' = 2)
             => /\ cash' = 100200
                /\ Get(positions', "A", 0) = 0
                /\ Appended
                /\ trades'[Len(trades')] =
                       Trade("A", tick'.timestamp, "SELL", 20, 110, 200)]_vars

\* the two ticks of the scenario were processed
C17_Witness ==
    /\ clock = 2
    /\ pc = "streaming"
    /\ tick.close_price = 110
    /\ num_sell = 2
    /\ num_buy = 0
    /\ cash = 100200
    /\ Pos("A") = 0
    /\ Len(trades) = 2
    /\ trades[1].qty = 20
    /\ trades[1].price = 100
    /\ trades[2].pnl = 200

\* the inputs create_order rejects
BadOrderInput(c) ==
    \/ c.side \notin {1, -1}
    \/ c.quantity <= 0
    \/ c.price <= 0
    \/ c.symbol = ""

\* C15: create_order with side not in {1, -1}, quantity <= 0, price <= 0 or
\* an empty symbol raises OrderError and leaves the order table, the next
\* order id, cash and positions unchanged; exec_order on an order that
\* fails validate() changes neither cash nor positions nor the order's
\* status.
C15_RejectionIsAtomic ==
    [][/\ (call'.op = "create_order" /\ BadOrderInput(call')) =>
              /\ result' = "OrderError"
              /\ UNCHANGED <<_orders, _next_order_id, _cash, _positions>>
       /\ (/\ call'.op = "exec_order"
           /\ Has(_orders, call'.order_id)
           /\ ValidateRaises(Get(_orders, call'.order_id, NoCall))) =>
              /\ result' = "OrderError"
              /\ UNCHANGED <<_cash, _positions>>
              /\ Get(_orders', call'.order_id, NoCall).status
                   = Get(_orders, call'.order_id, NoCall).status]_vars

\* after an order was accepted and executed, a create_order with a bad
\* input was rejected
C15_Witness ==
    /\ call.op = "create_order"
    /\ BadOrderInput(call)
    /\ result = "OrderError"
    /\ _next_order_id = 2
    /\ _positions > 0
    /\ _cash < InitialCash

C20_LastSignalWins ==
    call.op = "_direction_from_signals" =>
        LET n == Len(call.signals)
        IN /\ n = 0 => result = 0
           /\ n > 0 => result = call.signals[n][1]
           /\ (n = 2 /\ call.signals[1][1] = 1 /\ call.signals[2][1] = -1) =>
                  /\ Count(<<result>>, -1) = 1
                  /\ Count(<<result>>, 1) = 0

\* the list [+1, -1] was reduced to -1
C20_Witness ==
    /\ call.op = "_direction_from_signals"
    /\ Len(call.signals) = 2
    /\ call.signals[1][1] = 1
    /\ call.signals[2][1] = -1
    /\ result = -1

\* C21: after any on_tick(tick) call that returns, last_price[tick.symbol]
\* is the tick's close price and last_timestamp[tick.symbol] is the tick's
\* timestamp, whether or not producers are registered for the symbol, a
\* vote was cast or a trade was made.
C21_MarkOnEveryTick ==
    [][(OnTickStep /\ pc' = "streaming") =>
          /\ Has(last_price', tick'.symbol)
          /\ Get(last_price', tick'.symbol, 0) = tick'.close_price
          /\ Has(last_timestamp', tick'.symbol)
          /\ Get(last_timestamp', tick'.symbol, 0) = tick'.timestamp]_vars

\* the latest tick is of the symbol without producers and was re-marked at
\* the third tick, after a trade was made on an earlier tick
C21_Witness ==
    /\ tick.symbol = "U"
    /\ NumStrategies("U") = 0
    /\ clock = 3
    /\ Get(last_price, "U", 0) = 3000
    /\ Get(last_timestamp, "U", 0) = 3
    /\ Len(trades) = 1
    /\ pc = "streaming"

\* C22: on a tick where every producer of the symbol votes 0, on_tick
\* leaves cash, positions, entry_price and the trade log unchanged; only
\* last_price and last_timestamp of tick.symbol change.
C22_NoVotesNoDecision ==
    [][(OnTickStep /\ num_buy' = 0 /\ num_sell' = 0) =>
          /\ UNCHANGED <<cash, positions, entry_price, trades>>
          /\ last_price' = Put(last_price, tick'.symbol, tick'.close_price)
          /\ last_timestamp' =
                Put(last_timestamp, tick'.symbol, tick'.timestamp)]_vars

\* a symbol with producers and an open position got a tick without votes
C22_Witness ==
    /\ tick.symbol = "A"
    /\ num_buy = 0
    /\ num_sell = 0
    /\ Pos("A") # 0
    /\ Get(last_timestamp, "A", 0) = clock
    /\ Get(last_price, "A", 0) # Get(entry_price, "A", 0)
    /\ pc = "streaming"

\* the symbols of the stream that strategies_by_symbol does not register
Unregistered == {s \in Symbols : ~Has(StrategiesBySymbol, s)}

\* C23: a symbol with no registered producers never has a nonzero position
\* and never appears in the trade log, after any sequence of ticks and
\* finalize.
C23_UnregisteredNeverTrades ==
    \A s \in Unregistered :
        /\ Pos(s) = 0
        /\ \A i \in 1..Len(trades) : trades[i].symbol # s

\* the unregistered symbol was ticked, other symbols traded, and finalize
\* has run
C23_Witness ==
    /\ pc = "finalized"
    /\ Has(last_price, "U")
    /\ "U" \in Unregistered
    /\ Len(trades) = 2

\* C24: across every on_tick and finalize step the previous trade list is
\* a prefix of the new one, so no logged Trade is changed or removed.
C24_AppendOnly ==
    [][/\ Len(trades) <= Len(trades')
       /\ \A i \in 1..Len(trades) :
              /\ trades'[i].symbol = trades[i].symbol
              /\ trades'[i].timestamp = trades[i].timestamp
              /\ trades'[i].side = trades[i].side
              /\ trades'[i].qty = trades[i].qty
              /\ trades'[i].price = trades[i].price
              /\ trades'[i].pnl = trades[i].pnl]_vars

\* opens on two ticks, a close with a nonzero pnl on the third, and the
\* rest closed by finalize
C24_Witness ==
    /\ pc = "finalized"
    /\ Len(trades) = 4
    /\ \E i \in 1..Len(trades) : trades[i].pnl # 0

\* C25: every logged Trade has an integer qty > 0 and a side in
\* {BUY, SELL}, and every opening Trade has pnl = 0.
C25_TradeWellFormed ==
    /\ [](\A i \in 1..Len(trades) :
              /\ trades[i].qty \in Nat \ {0}
              /\ trades[i].side \in {"BUY", "SELL"})
    /\ [][(Appended /\ Pos(LastTrade'.symbol) = 0) =>
              LastTrade'.pnl = 0]_vars

\* an opening trade, a closing trade with nonzero pnl, and a consensus tick
\* whose sized quantity was 0 and logged nothing
C25_Witness ==
    /\ Len(trades) = 2
    /\ trades[1].pnl = 0
    /\ trades[2].pnl # 0
    /\ clock = 3
    /\ tick.close_price = 3000
    /\ notional_frac_per_trade = <<1, 50>>
    /\ num_buy >= 2
    /\ num_sell = 0
    /\ Pos(tick.symbol) = 0
    /\ trades[2].timestamp < 3

RECURSIVE ValueAtLast(_)
ValueAtLast(items) ==
    IF items = <<>> THEN 0
    ELSE (IF Head(items)[2] = 0 THEN 0
          ELSE Head(items)[2] * Get(last_price, Head(items)[1], 0))
         + ValueAtLast(Tail(items))

\* C26: in every reachable state portfolio_value() equals cash plus the sum
\* over symbols with nonzero position of position * last_price, and every
\* symbol holding a position has a recorded last price.
C26_PortfolioValue ==
    /\ \A i \in 1..Len(positions) :
           positions[i][2] # 0 => Has(last_price, positions[i][1])
    /\ portfolio_value(Engine) = cash + ValueAtLast(positions)

\* a long and a short are open and one of them is marked away from its
\* entry price
C26_Witness ==
    /\ \E i, j \in 1..Len(positions) :
           positions[i][2] > 0 /\ positions[j][2] < 0
    /\ \E i \in 1..Len(positions) :
           /\ positions[i][2] # 0
           /\ Get(last_price, positions[i][1], 0)
                # Get(entry_price, positions[i][1], 0)

TradesOf(ts, s) == SelectSeq(ts, LAMBDA t : t.symbol = s)

Side(q) == IF q > 0 THEN "LONG" ELSE IF q < 0 THEN "SHORT" ELSE "FLAT"

\* C28: for two tick streams that agree on all ticks and votes of symbol A
\* but differ in those of other symbols, the engine logs the same trades
\* for A and A passes through the same FLAT/LONG/SHORT states.
C28_CrossSymbolIndependence ==
    /\ TradesOf(trades, "A") = TradesOf(twin.trades, "A")
    /\ Side(Pos("A")) = Side(Get(twin.positions, "A", 0))

\* the stream's thread is inside LiveTradingEngine.on_tick
InOnTick(stream) == live.running[stream].kind = "bar"

BarsOf(bars, symbol) ==
    SelectSeq(bars, LAMBDA b : b.kind = "bar" /\ b.symbol = symbol)

CryptoShortEntry(c) ==
    is_crypto(c.symbol) /\ c.pos = 0 /\ c.num_sell >= 2 /\ c.num_buy = 0

C35_CashNonNegative == cash >= 0

\* the trades logged for symbol s alternate open and close
Alternates(ts) ==
    \A k \in 1..Len(ts) :
        IF k % 2 = 1
        THEN ts[k].pnl = 0
        ELSE /\ ts[k].qty = ts[k - 1].qty
             /\ ts[k].side # ts[k - 1].side

\* C36: in every reachable state positions[symbol] is nonzero exactly when
\* the number of trades logged for the symbol is odd, and the trades of
\* one symbol alternate opening trade (pnl 0, sets the position) and
\* closing trade (same qty, opposite side).
C36_OpenCloseAlternation ==
    \A s \in Symbols :
        LET ts == TradesOf(trades, s)
        IN /\ Pos(s) # 0 <=> Len(ts) % 2 = 1
           /\ Alternates(ts)
           /\ Len(ts) % 2 = 1 =>
                  Pos(s) = IF ts[Len(ts)].side = "BUY"
                           THEN ts[Len(ts)].qty ELSE 0 - ts[Len(ts)].qty

\* one symbol was opened, closed and opened again in the other direction
C36_Witness ==
    \E s \in Symbols :
        LET ts == TradesOf(trades, s)
        IN /\ Len(ts) = 3
           /\ ts[1].side = "SELL"
           /\ ts[2].side = "BUY"
           /\ ts[3].side = "BUY"
           /\ Pos(s) > 0

\* C37: after finalize(), portfolio_value() = cash and
\* cash = initial_capital + the sum of pnl over all logged trades.
C37_FinalizedBooks ==
    pc = "finalized" =>
        /\ portfolio_value(Engine) = cash
        /\ cash = InitialCapital + SumPnl(trades)

\* finalize closed a long and a short, with a loss on the short
C37_Witness ==
    /\ pc = "finalized"
    /\ Len(trades) = 4
    /\ \E i, j \in 3..4 :
           /\ trades[i].side = "SELL"
           /\ trades[j].side = "BUY"
           /\ trades[j].pnl < 0
    /\ trades[1].pnl = 0
    /\ trades[2].pnl = 0
    /\ SumPnl(trades) # 0

\* the order the latest exec_order call was made on, before and after
ExecOrderBefore == Get(_orders, call'.order_id, NoCall)

ExecOrderAfter == Get(_orders', call'.order_id, NoCall)

\* C39: after any sequence of create_order and exec_order calls (with
\* full, partial and failed fills) positions >= 0 and cash >= 0, and a
\* FAILED execution changes neither cash nor positions.
C39_LongOnlyAndSolvent ==
    /\ [](_positions >= 0 /\ _cash >= 0)
    /\ [][(/\ call'.op = "exec_order"
           /\ result' = "ok"
           /\ ExecOrderAfter.status = "FAILED") =>
              UNCHANGED <<_cash, _positions>>]_vars

\* after a partial fill of a buy, the execution of a second order failed
C39_Witness ==
    /\ call.op = "exec_order"
    /\ result = "ok"
    /\ call.fill = "FAILED"
    /\ Get(_orders, call.order_id, NoCall).status = "FAILED"
    /\ _positions = 45
    /\ _cash = InitialCash - 45 * 60

\* C40: after any sequence of executed orders, OrderManager.positions never
\* exceeds position_limit.
C40_PositionLimit == _positions <= PositionLimit

StatusOf(orders, id) == Get(orders, id, NoCall).status

\* C32: an Order starts PENDING and only moves PENDING -> EXECUTED,
\* PENDING -> FAILED or PENDING -> CANCELLED; execute() and cancel() raise
\* ExecutionError on an order that is not PENDING or not validated; and
\* cash and positions change only in the exec_order call that takes the
\* order from PENDING to EXECUTED, so at most once per order.
C32_OrderLifecycle ==
    [][/\ \A id \in 1..MaxOrders :
              /\ (~Has(_orders, id) /\ Has(_orders', id)) =>
                     StatusOf(_orders', id) = "PENDING"
              /\ Has(_orders, id) =>
                     /\ Has(_orders', id)
                     /\ StatusOf(_orders', id) # StatusOf(_orders, id) =>
                            /\ StatusOf(_orders, id) = "PENDING"
                            /\ StatusOf(_orders', id) \in
                                   {"EXECUTED", "FAILED", "CANCELLED"}
       /\ (/\ call'.op \in {"execute", "cancel"}
           /\ \/ ExecOrderBefore.status # "PENDING"
              \/ ~ExecOrderBefore.validated) =>
              /\ result' = "ExecutionError"
              /\ UNCHANGED <<_orders, _cash, _positions>>
       /\ (_cash' # _cash \/ _positions' # _positions) =>
              /\ call'.op = "exec_order"
              /\ ExecOrderBefore.status = "PENDING"
              /\ ExecOrderAfter.status = "EXECUTED"]_vars

\* one order was executed by exec_order, the other was cancelled, and a
\* later execute() on the cancelled order raised ExecutionError
C32_Witness ==
    /\ call.op = "execute"
    /\ result = "ExecutionError"
    /\ StatusOf(_orders, call.order_id) = "CANCELLED"
    /\ \E id \in 1..MaxOrders :
           Has(_orders, id) /\ StatusOf(_orders, id) = "EXECUTED"
    /\ _positions > 0

\* every signal the producer has returned so far that the latest call can be
\* compared with: the last one of the earlier calls, then the latest list
EmittedSignals ==
    IF strategy.previous = 0 THEN strategy.output
    ELSE <<strategy.previous>> \o strategy.output

\* C38: the signals of one RSI, BB or Zscore instance alternate in
\* direction: each signal returned differs from the one returned before it,
\* whether that one is in the same list or came from an earlier tick
C38_SignalsAlternate ==
    strategy.kind \in StrategyKinds =>
        /\ \A i \in 1..Len(strategy.output) : strategy.output[i] \in {1, -1}
        /\ \A i \in 1..(Len(EmittedSignals) - 1) :
               EmittedSignals[i] # EmittedSignals[i + 1]

\* one call returns two signals after an earlier call returned one
C38_Witness ==
    /\ strategy.kind \in StrategyKinds
    /\ strategy.previous # 0
    /\ Len(strategy.output) = 2

\* the latest step was LiveTradingEngine.on_tick
LiveTick == call.op = "live_on_tick"

\* C31: when the broker reports a short in a stock symbol and the tick has
\* num_buy >= 2, on_tick submits one buy order for the size of the position
C31_ShortIsClosed ==
    (/\ LiveTick
     /\ ~is_crypto(call.symbol)
     /\ call.pos.side = "short"
     /\ call.num_buy >= 2)
        => /\ result.side = "buy"
           /\ result.qty = Abs(call.pos.qty)
           /\ result.purpose = "close"

\* the orders submitted so far
LiveOrders == {alpaca.orders[i] : i \in 1..Len(alpaca.orders)}

OutstandingOpens(symbol) ==
    {i \in 1..Len(alpaca.orders) :
        /\ alpaca.orders[i].symbol = symbol
        /\ alpaca.orders[i].purpose = "open"
        /\ ~alpaca.orders[i].filled}

\* C34: at most one opening order is outstanding per symbol
C34_NoDuplicateOpens ==
    alpaca.connected =>
        \A symbol \in LiveSymbols :
            Cardinality(OutstandingOpens(symbol)) <= 1

====
